---------------------------- MODULE Spec2Model ----------------------------
(***************************************************************************)
(* A model of src/main.py of LaTeX-Python-Connector: the logging set-up    *)
(* (initialize_logging), the error reporter (show_error_message) and the   *)
(* word-count runner (get_word_count) that shells out to texcount and      *)
(* parses its output into a dictionary.                                    *)
(*                                                                         *)
(* Text is a sequence of one-character strings, the bytes a subprocess     *)
(* writes are a sequence of integers, and a dictionary is a function from  *)
(* keys (text) to values (text).                                           *)
(***************************************************************************)
EXTENDS Integers, Sequences, FiniteSets

VARIABLES
    pc,                 \* where the single thread of control is
    tty,                \* sys.stdout.isatty() of this process
    display,            \* whether tk.Tk() can open a display
    fs_dir,             \* the caller's log directory exists
    fs_file,            \* the log file exists inside it
    logSink,            \* what the root logger writes to
    loggingInitialized, \* initialize_logging has been called
    logged,             \* the functions that have written a log record
    tex_file,           \* get_word_count's argument
    proc,               \* the texcount subprocess
    returncode,         \* its exit status, once exited
    outBytes,           \* the bytes captured from its stdout and stderr
    output,             \* the decoded text
    temp_dict,          \* the dictionary being built and returned
    exc,                \* the exception raised inside the try block
    ran,                \* the except clauses that have run in this call
    message,            \* the argument of the last show_error_message call
    reports,            \* show_error_message calls made by this call
    effects,            \* side effects of the last show_error_message call
    ret                 \* how the last get_word_count call ended

vars == <<pc, tty, display, fs_dir, fs_file, logSink, loggingInitialized,
          logged, tex_file, proc, returncode, outBytes, output, temp_dict,
          exc, ran, message, reports, effects, ret>>

envVars == <<tty, display>>
fsVars == <<fs_dir, fs_file>>
logVars == <<logSink, loggingInitialized, logged>>
callVars == <<tex_file, proc, returncode, outBytes, output, temp_dict, exc,
              ran, message, reports, effects, ret>>

(***************************************************************************)
(* Bounds of the model.                                                    *)
(***************************************************************************)
\* longest captured output in the whole-process specification
MaxOut == 2
\* longest captured output in the parsing specification
MaxLen == 8
\* largest exit status of the subprocess
MaxExit == 2

(***************************************************************************)
(* Module-level constants of main.py.                                      *)
(***************************************************************************)
ENABLE_TERMINAL_LOGGING == TRUE

\* LOG_DIR is os.path.join(os.path.abspath(__file__), 'log'): a path below
\* the regular file main.py, which therefore neither exists nor can be made.
LOG_DIR == "main.py/log"

LOG_FILE == "error.log"

\* the directories a caller may hand to initialize_logging
LogDirs == {LOG_DIR, "logs"}

\* the paths a caller may hand to get_word_count
TexFiles == {"essay.tex", "main.tex"}

(***************************************************************************)
(* Bytes and text.                                                         *)
(***************************************************************************)
NL == "\n"

\* the bytes of "\n", " ", ":" and "a", and 0xFF, which no UTF-8 text holds
ValidBytes == {10, 32, 58, 97}

Bytes == ValidBytes \cup {255}

BytesUpTo(S, n) == UNION {[1..k -> S] : k \in 0..n}

Chr(b) == CASE b = 10 -> NL
            [] b = 32 -> " "
            [] b = 58 -> ":"
            [] b = 97 -> "a"

\* bytes.decode('utf-8') of single-byte sequences: a byte above 0x7F that
\* starts no valid sequence raises UnicodeDecodeError
Decodable(bs) == \A i \in 1..Len(bs) : bs[i] < 128

Decode(bs) == [i \in 1..Len(bs) |-> Chr(bs[i])]

Min(S) == CHOOSE x \in S : \A y \in S : x <= y

Match(s, sep, i) ==
    /\ i + Len(sep) - 1 <= Len(s)
    /\ SubSeq(s, i, i + Len(sep) - 1) = sep

\* str.find: the first position where sep occurs, 0 when it does not
Find(s, sep) ==
    LET hits == {i \in 1..Len(s) : Match(s, sep, i)}
    IN  IF hits = {} THEN 0 ELSE Min(hits)

\* str.split(sep): cut at every occurrence, left to right, no overlap
RECURSIVE Split(_, _)
Split(s, sep) ==
    LET i == Find(s, sep)
    IN  IF i = 0
        THEN <<s>>
        ELSE <<SubSeq(s, 1, i - 1)>> \o Split(SubSeq(s, i + Len(sep), Len(s)), sep)

\* the separator of line 121
Sep == <<":", " ">>

Digits == <<"0", "1", "2", "3", "4", "5", "6", "7", "8", "9">>

\* str(n) of an integer, as the f-string of line 127 formats the return code
RECURSIVE DecStr(_)
DecStr(n) ==
    IF n < 0 THEN "-" \o DecStr(-n)
    ELSE IF n < 10 THEN Digits[n + 1]
    ELSE DecStr(n \div 10) \o Digits[(n % 10) + 1]

(***************************************************************************)
(* The dictionary of lines 118-124.                                        *)
(***************************************************************************)
EmptyDict == <<>>

\* a wrong temp_dict[k] = v: an existing key keeps its first value
StoreKeepFirst(d, k, v) ==
    [x \in DOMAIN d \cup {k} |-> IF x \in DOMAIN d THEN d[x] ELSE v]

\* temp_dict[k] = v
Store(d, k, v) ==
    [x \in DOMAIN d \cup {k} |-> IF x = k THEN v ELSE d[x]]

\* a wrong loop body: the parts stored the other way round
ParseItemSwapped(d, item) ==
    LET temp_item == Split(item, Sep)
    IN  IF Len(temp_item) = 2 THEN Store(d, temp_item[2], temp_item[1]) ELSE d

\* a wrong loop body: any line with a separator is stored
ParseItemAtLeastTwo(d, item) ==
    LET temp_item == Split(item, Sep)
    IN  IF Len(temp_item) >= 2 THEN Store(d, temp_item[1], temp_item[2]) ELSE d

\* the body of the for loop, lines 121-123
ParseItem(d, item) ==
    LET temp_item == Split(item, Sep)
    IN  IF Len(temp_item) = 2 THEN Store(d, temp_item[1], temp_item[2]) ELSE d

\* the for loop of line 120 over items i..Len(items), starting from d
RECURSIVE ParseItems(_, _, _)
ParseItems(d, items, i) ==
    IF i > Len(items) THEN d ELSE ParseItems(ParseItem(d, items[i]), items, i + 1)

(***************************************************************************)
(* Exceptions and the except clauses of lines 125-152.                     *)
(***************************************************************************)
\* the base class of each exception class (Python's built-in hierarchy)
Base(c) == CASE c = "CalledProcessError" -> "SubprocessError"
             [] c = "TimeoutExpired" -> "SubprocessError"
             [] c = "SubprocessError" -> "Exception"
             [] c = "FileNotFoundError" -> "OSError"
             [] c = "PermissionError" -> "OSError"
             [] c = "OSError" -> "Exception"
             [] c = "UnicodeDecodeError" -> "ValueError"
             [] c = "ValueError" -> "Exception"
             [] c = "IndexError" -> "LookupError"
             [] c = "KeyError" -> "LookupError"
             [] c = "LookupError" -> "Exception"
             [] c = "TclError" -> "Exception"
             [] c = "Exception" -> "BaseException"
             [] OTHER -> "object"

\* isinstance(an exception of class c, cls)
RECURSIVE IsInstance(_, _)
IsInstance(c, cls) ==
    IF c = cls THEN TRUE
    ELSE IF c \in {"BaseException", "object"} THEN FALSE
    ELSE IsInstance(Base(c), cls)

Clause(classes, text) == [classes |-> classes, text |-> text]

\* the except clauses with the permission clause moved before the OS clause
HandlersPermissionFirst ==
    << Clause({"CalledProcessError"}, ": Command failed. Return code: "),
       Clause({"TimeoutExpired"}, ": Command timed out: "),
       Clause({"PermissionError"}, ": Permission denied: "),
       Clause({"OSError"}, ": OS error occurred: "),
       Clause({"ValueError"}, ": Invalid value: "),
       Clause({"IndexError", "KeyError"}, ": Index or Key error occurred: "),
       Clause({"Exception"}, ": Caught Exception: ") >>

\* the except clauses of get_word_count, in source order
Handlers ==
    << Clause({"CalledProcessError"}, ": Command failed. Return code: "),
       Clause({"TimeoutExpired"}, ": Command timed out: "),
       Clause({"OSError"}, ": OS error occurred: "),
       Clause({"ValueError"}, ": Invalid value: "),
       Clause({"PermissionError"}, ": Permission denied: "),
       Clause({"IndexError", "KeyError"}, ": Index or Key error occurred: "),
       Clause({"Exception"}, ": Caught Exception: ") >>

Catches(i, e) == \E cls \in Handlers[i].classes : IsInstance(e, cls)

\* the clause Python runs for e: the first one, in order, that catches it
MatchingHandler(e) ==
    LET hits == {i \in 1..Len(Handlers) : Catches(i, e)}
    IN  IF hits = {} THEN 0 ELSE Min(hits)

\* what the f-string of each clause interpolates after its text
Detail(e, rc) == IF e = "CalledProcessError" THEN DecStr(rc) ELSE e

\* the f-strings of lines 127-151, as the sequence of their parts
ErrorMessage(i, f, e, rc) ==
    <<"Error while performing a word count on ", f, Handlers[i].text, Detail(e, rc)>>

Contains(msg, part) == \E i \in 1..Len(msg) : msg[i] = part


(***************************************************************************)
(* The logging module, as far as main.py uses it.                          *)
(***************************************************************************)
\* logging.basicConfig(...): does nothing once the root logger has a handler
BasicConfig(sink, wanted) == IF sink = "unconfigured" THEN wanted ELSE sink

\* logging.error(...) by function `who`: configures a stream handler when the
\* root logger has none, then writes the record
LoggingError(who) ==
    /\ logSink' = BasicConfig(logSink, "stream")
    /\ logged' = logged \cup {who}

(***************************************************************************)
(* The state after the interpreter has loaded main.py.                     *)
(***************************************************************************)
NoCall ==
    /\ tex_file = ""
    /\ proc = "none"
    /\ returncode = 0
    /\ outBytes = <<>>
    /\ output = <<>>
    /\ temp_dict = EmptyDict
    /\ exc = "none"
    /\ ran = {}
    /\ message = <<>>
    /\ reports = 0
    /\ effects = {}
    /\ ret = "pending"

Init ==
    /\ pc = "start"
    /\ tty \in BOOLEAN
    /\ display \in BOOLEAN
    /\ fs_dir \in BOOLEAN
    /\ fs_file \in BOOLEAN
    /\ fs_file => fs_dir
    /\ logSink = "unconfigured"
    /\ loggingInitialized = FALSE
    /\ logged = {}
    /\ NoCall

(***************************************************************************)
(* Process start, lines 258-263.                                           *)
(***************************************************************************)
\* run as a script: main() is `pass`, and the process ends
main ==
    /\ pc = "start"
    /\ pc' = "exited"
    /\ UNCHANGED <<envVars, fsVars, logVars, callVars>>

\* imported by another program, which then calls the functions
import_module ==
    /\ pc = "start"
    /\ pc' = "idle"
    /\ UNCHANGED <<envVars, fsVars, logVars, callVars>>

(***************************************************************************)
(* initialize_logging(log_dir, log_file, terminal_logging), lines 55-85,   *)
(* called by the importing program. mk_ok and open_ok are whether the      *)
(* operating system lets os.makedirs and open succeed.                     *)
(***************************************************************************)
initialize_logging(log_dir, terminal_logging, mk_ok, open_ok) ==
    LET dirExists == log_dir # LOG_DIR /\ fs_dir
        dirMade == log_dir # LOG_DIR /\ mk_ok
    IN  /\ pc = "idle"
        /\ loggingInitialized' = TRUE
        /\ IF ~dirExists /\ ~dirMade
           THEN \* os.makedirs raises OSError, caught at line 82
                /\ LoggingError("initialize_logging")
                /\ UNCHANGED fsVars
           ELSE IF ~fs_file /\ ~open_ok
           THEN \* open(log_path, 'w') raises OSError, caught at line 82
                /\ fs_dir' = TRUE
                /\ fs_file' = fs_file
                /\ LoggingError("initialize_logging")
           ELSE /\ fs_dir' = TRUE
                /\ fs_file' = TRUE
                /\ logSink' = BasicConfig(logSink,
                                IF terminal_logging /\ tty THEN "file" ELSE "stream")
                /\ logged' = logged
        /\ UNCHANGED <<pc, envVars, callVars>>

(***************************************************************************)
(* get_word_count(tex_file), lines 104-152.                                *)
(***************************************************************************)
\* the call, by the importing program
get_word_count(f) ==
    /\ pc = "idle"
    /\ pc' = "launch"
    /\ tex_file' = f
    /\ proc' = "none"
    /\ returncode' = 0
    /\ outBytes' = <<>>
    /\ output' = <<>>
    /\ temp_dict' = EmptyDict
    /\ exc' = "none"
    /\ ran' = {}
    /\ message' = <<>>
    /\ reports' = 0
    /\ effects' = {}
    /\ ret' = "pending"
    /\ UNCHANGED <<envVars, fsVars, logVars>>

\* what starting ['texcount', '-sum=1', '-total', tex_file] can do: the
\* process starts, or the operating system refuses
LaunchOutcomes == {"started", "FileNotFoundError", "PermissionError", "OSError"}

\* subprocess.check_output starts the process, line 117
check_output_start(outcome) ==
    /\ pc = "launch"
    /\ IF outcome = "started"
       THEN /\ proc' = "running"
            /\ pc' = "wait"
            /\ exc' = exc
       ELSE /\ proc' = proc
            /\ pc' = "except"
            /\ exc' = outcome
    /\ UNCHANGED <<envVars, fsVars, logVars, tex_file, returncode, outBytes,
                   output, temp_dict, ran, message, reports, effects, ret>>

\* texcount writes a byte to stdout or stderr (stderr=subprocess.STDOUT)
tool_write(b) ==
    /\ pc = "wait"
    /\ proc = "running"
    /\ Len(outBytes) < MaxOut
    /\ outBytes' = Append(outBytes, b)
    /\ UNCHANGED <<pc, envVars, fsVars, logVars, tex_file, proc, returncode,
                   output, temp_dict, exc, ran, message, reports, effects, ret>>

ExitCodes == {-9} \cup (0..MaxExit)

\* texcount exits, or is killed by a signal
tool_exit(code) ==
    /\ pc = "wait"
    /\ proc = "running"
    /\ proc' = "exited"
    /\ returncode' = code
    /\ UNCHANGED <<pc, envVars, fsVars, logVars, tex_file, outBytes, output,
                   temp_dict, exc, ran, message, reports, effects, ret>>

\* subprocess.check_output is called without timeout=, so it waits for the
\* process to exit, however long that takes; then it returns the captured
\* bytes or raises CalledProcessError
check_output_return ==
    /\ pc = "wait"
    /\ proc = "exited"
    /\ IF returncode # 0
       THEN /\ exc' = "CalledProcessError"
            /\ pc' = "except"
       ELSE /\ exc' = exc
            /\ pc' = "decode"
    /\ UNCHANGED <<envVars, fsVars, logVars, tex_file, proc, returncode,
                   outBytes, output, temp_dict, ran, message, reports, effects,
                   ret>>

\* .decode('utf-8'), line 117
decode ==
    /\ pc = "decode"
    /\ IF Decodable(outBytes)
       THEN /\ output' = Decode(outBytes)
            /\ pc' = "parse"
            /\ exc' = exc
       ELSE /\ output' = output
            /\ pc' = "except"
            /\ exc' = "UnicodeDecodeError"
    /\ UNCHANGED <<envVars, fsVars, logVars, tex_file, proc, returncode,
                   outBytes, temp_dict, ran, message, reports, effects, ret>>

\* lines 118-124: split into lines, run the loop, return the dictionary
parse_and_return ==
    /\ pc = "parse"
    /\ temp_dict' = ParseItems(EmptyDict, Split(output, <<NL>>), 1)
    /\ ret' = "dict"
    /\ pc' = "idle"
    /\ UNCHANGED <<envVars, fsVars, logVars, tex_file, proc, returncode,
                   outBytes, output, exc, ran, message, reports, effects>>

\* the except clause that catches exc runs up to its show_error_message call
handle_exception ==
    /\ pc = "except"
    /\ LET i == MatchingHandler(exc)
       IN  /\ ran' = ran \cup {i}
           /\ message' = ErrorMessage(i, tex_file, exc, returncode)
    /\ reports' = reports + 1
    /\ effects' = {}
    /\ pc' = "report"
    /\ UNCHANGED <<envVars, fsVars, logVars, tex_file, proc, returncode,
                   outBytes, output, temp_dict, exc, ret>>

(***************************************************************************)
(* show_error_message(message), lines 88-102, called from an except clause *)
(***************************************************************************)
show_error_message ==
    /\ pc = "report"
    /\ IF ENABLE_TERMINAL_LOGGING /\ tty
       THEN \* line 97
            /\ LoggingError("show_error_message")
            /\ effects' = {"log"}
            /\ pc' = "return_none"
            /\ ret' = ret
       ELSE IF display
       THEN \* lines 100-102: the dialog is up and blocks
            /\ effects' = {"dialog"}
            /\ pc' = "dialog"
            /\ ret' = ret
            /\ UNCHANGED <<logSink, logged>>
       ELSE \* tk.Tk() raises TclError at line 100; nothing encloses the
            \* except clause, so it leaves get_word_count
            /\ effects' = effects
            /\ pc' = "idle"
            /\ ret' = "raise"
            /\ UNCHANGED <<logSink, logged>>
    /\ UNCHANGED <<envVars, fsVars, loggingInitialized, tex_file, proc,
                   returncode, outBytes, output, temp_dict, exc, ran, message,
                   reports>>

\* the user closes the dialog and messagebox.showerror returns
dismiss_dialog ==
    /\ pc = "dialog"
    /\ pc' = "return_none"
    /\ UNCHANGED <<envVars, fsVars, logVars, callVars>>

\* `return None` of the except clause
return_none ==
    /\ pc = "return_none"
    /\ ret' = "None"
    /\ pc' = "idle"
    /\ UNCHANGED <<envVars, fsVars, logVars, tex_file, proc, returncode,
                   outBytes, output, temp_dict, exc, ran, message, reports,
                   effects>>

(***************************************************************************)
(* The whole process.                                                      *)
(***************************************************************************)
ProgramStep ==
    \/ \E o \in LaunchOutcomes : check_output_start(o)
    \/ check_output_return
    \/ decode
    \/ parse_and_return
    \/ handle_exception
    \/ show_error_message
    \/ return_none

Next ==
    \/ main
    \/ import_module
    \/ \E d \in LogDirs, t \in BOOLEAN, m \in BOOLEAN, o \in BOOLEAN :
          initialize_logging(d, t, m, o)
    \/ \E f \in TexFiles : get_word_count(f)
    \/ \E b \in Bytes : tool_write(b)
    \/ \E c \in ExitCodes : tool_exit(c)
    \/ ProgramStep
    \/ dismiss_dialog

Spec == Init /\ [][Next]_vars

\* The interpreter runs the program's own steps whenever one is possible, and
\* the user closes a dialog that is shown. Nothing makes texcount write or
\* exit, and nothing makes a caller call.
FairSpec == Spec /\ WF_vars(ProgramStep) /\ WF_vars(dismiss_dialog)

(***************************************************************************)
(* Parsing alone: get_word_count from the point where check_output has     *)
(* returned the bytes of a texcount run that exited with status 0.         *)
(***************************************************************************)
ParseInit ==
    /\ pc = "decode"
    /\ tty = TRUE
    /\ display = TRUE
    /\ fs_dir = FALSE
    /\ fs_file = FALSE
    /\ logSink = "unconfigured"
    /\ loggingInitialized = FALSE
    /\ logged = {}
    /\ tex_file = "essay.tex"
    /\ proc = "exited"
    /\ returncode = 0
    /\ outBytes \in BytesUpTo(ValidBytes, MaxLen)
    /\ output = <<>>
    /\ temp_dict = EmptyDict
    /\ exc = "none"
    /\ ran = {}
    /\ message = <<>>
    /\ reports = 0
    /\ effects = {}
    /\ ret = "pending"

ParseNext == decode \/ parse_and_return

ParseSpec == ParseInit /\ [][ParseNext]_vars

(***************************************************************************)
(* The vocabulary of the properties: the lines of a text and the           *)
(* separators of a line, read off character positions.                     *)
(***************************************************************************)
Max(S) == CHOOSE x \in S : \A y \in S : y <= x

NLPos(t) == {i \in 1..Len(t) : t[i] = NL}

Cuts(t) == {0} \cup NLPos(t) \cup {Len(t) + 1}

NumLines(t) == Cardinality(NLPos(t)) + 1

\* the k-th cut, counting from 0
CutAt(t, k) == CHOOSE c \in Cuts(t) : Cardinality({x \in Cuts(t) : x < c}) = k

\* the k-th piece between newlines, counting from 1
LineOf(t, k) == SubSeq(t, CutAt(t, k - 1) + 1, CutAt(t, k) - 1)

\* the pieces between newlines, in order
Lines(t) == [k \in 1..NumLines(t) |-> LineOf(t, k)]

\* the pieces that are lines: all but the empty piece after a final newline
RealLines(L) == {k \in 1..Len(L) : ~(k = Len(L) /\ L[k] = <<>>)}

\* where ": " occurs in a line
SepPos(l) == {i \in 1..(Len(l) - 1) : l[i] = ":" /\ l[i + 1] = " "}

\* a `label: value` line: exactly one ": "
WellFormed(l) == Cardinality(SepPos(l)) = 1

Label(l) == SubSeq(l, 1, Min(SepPos(l)) - 1)

Value(l) == SubSeq(l, Min(SepPos(l)) + 2, Len(l))

WellFormedLines(L) == {k \in 1..Len(L) : WellFormed(L[k])}

OnlyWellFormed(L) == RealLines(L) \subseteq WellFormedLines(L)

DistinctLabels(L) ==
    \A j, k \in WellFormedLines(L) : j # k => Label(L[j]) # Label(L[k])

\* the last get_word_count call has ended
Done == pc = "idle" /\ ret # "pending"

\* it ended by returning the dictionary
Returned == pc = "idle" /\ ret = "dict"

OneEntryPerLine(L, d) ==
    /\ Cardinality(DOMAIN d) = Cardinality(RealLines(L))
    /\ \A k \in RealLines(L) :
          /\ Label(L[k]) \in DOMAIN d
          /\ d[Label(L[k])] = Value(L[k])

(***************************************************************************)
(* C1, as stated: for every output text made only of well-formed           *)
(* `label: value` lines, the returned mapping has exactly one entry per    *)
(* line, keyed by the text before the ": " and holding the text after it.  *)
(***************************************************************************)
C1_OneEntryPerLine ==
    Returned =>
        LET L == Lines(output)
        IN  OnlyWellFormed(L) => OneEntryPerLine(L, temp_dict)

(***************************************************************************)
(* C1, amended: for every output text made only of well-formed             *)
(* `label: value` lines whose labels are pairwise distinct, the returned   *)
(* mapping has exactly one entry per line, keyed by the text before the    *)
(* ": " and holding the text after it.                                     *)
(***************************************************************************)
C1_OneEntryPerDistinctLabel ==
    Returned =>
        LET L == Lines(output)
        IN  (OnlyWellFormed(L) /\ DistinctLabels(L))
                => OneEntryPerLine(L, temp_dict)

C1_Witness ==
    /\ Returned
    /\ LET L == Lines(output)
       IN  /\ OnlyWellFormed(L)
           /\ DistinctLabels(L)
           /\ Cardinality(RealLines(L)) >= 2
           /\ Len(L) > Cardinality(RealLines(L))
           /\ \A k \in RealLines(L) : Label(L[k]) # <<>>

(***************************************************************************)
(* C2: a line contributes an entry to the returned mapping if and only if  *)
(* it holds exactly one ": "; the keys of the mapping are the labels of    *)
(* those lines and nothing else, each value comes from such a line, and no *)
(* line makes the call raise or report an error.                           *)
(***************************************************************************)
C2_ExactlyOneSeparator ==
    (Done /\ exc = "none") =>
        LET L == Lines(output)
            W == WellFormedLines(L)
        IN  /\ ret = "dict"
            /\ reports = 0
            /\ DOMAIN temp_dict = {Label(L[k]) : k \in W}
            /\ \A key \in DOMAIN temp_dict :
                  \E k \in W : Label(L[k]) = key /\ Value(L[k]) = temp_dict[key]

C2_Witness ==
    /\ Returned
    /\ LET L == Lines(output)
       IN  /\ WellFormedLines(L) # {}
           /\ \E k \in 1..Len(L) : Cardinality(SepPos(L[k])) >= 2
           /\ \E k \in 1..Len(L) : SepPos(L[k]) = {}
           /\ DOMAIN temp_dict # {}

(***************************************************************************)
(* C9: when several lines with exactly one ": " carry the same label, the  *)
(* returned mapping holds one entry for that label, and its value is the   *)
(* value of the last such line.                                            *)
(***************************************************************************)
C9_LastOccurrenceWins ==
    Returned =>
        LET L == Lines(output)
            W == WellFormedLines(L)
        IN  \A k \in W :
                LET same == {j \in W : Label(L[j]) = Label(L[k])}
                IN  /\ Label(L[k]) \in DOMAIN temp_dict
                    /\ temp_dict[Label(L[k])] = Value(L[Max(same)])

C9_Witness ==
    /\ Returned
    /\ LET L == Lines(output)
       IN  \E j, k \in WellFormedLines(L) :
              /\ j < k
              /\ Label(L[j]) = Label(L[k])
              /\ Value(L[j]) # Value(L[k])
              /\ Label(L[k]) # <<>>

(***************************************************************************)
(* The vocabulary of the error-handling properties.                        *)
(***************************************************************************)
\* the last call failed inside the try block and has ended
Failed == Done /\ exc # "none"

\* the position of the except clause written for exactly the classes cs
ClauseFor(cs) == CHOOSE i \in 1..Len(Handlers) : Handlers[i].classes = cs

OSText == ": OS error occurred: "

PermissionText == ": Permission denied: "

TimeoutText == ": Command timed out: "

(***************************************************************************)
(* C3: whenever texcount exits with a non-zero status, get_word_count      *)
(* returns None and has issued exactly one error report, whose message     *)
(* holds the file path of the call and the return code.                    *)
(***************************************************************************)
C3_NonZeroExitReported ==
    (Done /\ proc = "exited" /\ returncode # 0) =>
        /\ ret = "None"
        /\ reports = 1
        /\ Contains(message, tex_file)
        /\ Contains(message, DecStr(returncode))

(***************************************************************************)
(* C4: for every failure of the invocation or of the parsing,              *)
(* get_word_count ends by returning None and no exception reaches its      *)
(* caller, also when the report goes to the modal dialog.                  *)
(***************************************************************************)
C4_NothingPropagates ==
    /\ ret # "raise"
    /\ Failed => ret = "None"

(***************************************************************************)
(* C5: every call of show_error_message performs exactly one of the two    *)
(* side effects, a log write or a modal dialog: the log write if and only  *)
(* if ENABLE_TERMINAL_LOGGING is set and stdout is a terminal, the dialog  *)
(* in every other case.                                                    *)
(***************************************************************************)
C5_ExactlyOneSink ==
    (reports > 0 /\ pc # "report") =>
        /\ Cardinality(effects) = 1
        /\ ("log" \in effects) <=> (ENABLE_TERMINAL_LOGGING /\ tty)
        /\ ("dialog" \in effects) <=> ~(ENABLE_TERMINAL_LOGGING /\ tty)

(***************************************************************************)
(* C6: when texcount is absent, get_word_count returns None and the one    *)
(* message it reports is the operating-system-failure message.             *)
(***************************************************************************)
C6_AbsentToolIsOSError ==
    (Done /\ exc = "FileNotFoundError") =>
        /\ ret = "None"
        /\ reports = 1
        /\ Contains(message, OSText)
        /\ \A i \in 1..Len(Handlers) :
              Contains(message, Handlers[i].text) => Handlers[i].text = OSText

(***************************************************************************)
(* C7: in every run of the process, logging is initialized during process  *)
(* start and before the first error report.                                *)
(***************************************************************************)
C7_InitializedBeforeReport ==
    /\ pc = "exited" => loggingInitialized
    /\ reports > 0 => loggingInitialized

(***************************************************************************)
(* C8: every call of get_word_count eventually returns (a texcount that    *)
(* runs past the time limit is cut off and reported as a timeout).         *)
(***************************************************************************)
C8_EveryCallReturns == (pc = "wait") ~> (pc = "idle")

(***************************************************************************)
(* C10: the except clauses are tried in source order and exactly one runs  *)
(* per failed call; a permission-denied failure is handled by the OS-error *)
(* clause and reported with its message, and the permission-denied clause  *)
(* after it never runs.                                                    *)
(***************************************************************************)
C10_PermissionClauseUnreachable ==
    /\ Cardinality(ran) <= 1
    /\ Failed => Cardinality(ran) = 1
    /\ (exc # "none" /\ ran # {}) =>
          \A i \in ran :
              /\ \E cls \in Handlers[i].classes : IsInstance(exc, cls)
              /\ \A j \in 1..(i - 1) :
                    \A cls \in Handlers[j].classes : ~IsInstance(exc, cls)
    /\ ClauseFor({"PermissionError"}) \notin ran
    /\ ~Contains(message, PermissionText)
    /\ (exc = "PermissionError" /\ ran # {}) =>
          /\ ran = {ClauseFor({"OSError"})}
          /\ Contains(message, OSText)

C10_Witness ==
    /\ Done
    /\ exc = "PermissionError"
    /\ ret = "None"
    /\ reports = 1

=============================================================================
